---- MODULE Spec2Model ----
(***************************************************************************)
(* rat-zsh (rz): model of `rz sync` (cmd_sync, build_jobs, the per-job     *)
(* closure, the two cleanup passes) and of the git backend (ensure_repo).  *)
(*                                                                         *)
(* Strings the code inspects character by character (repo, slug, plugin    *)
(* name, path components) are sequences of one-character strings.  A path  *)
(* is a sequence of components.  Git ref names and commit ids, which the   *)
(* code only compares and prefixes, are plain strings.                     *)
(***************************************************************************)
EXTENDS Integers, Sequences, FiniteSets, TLC

(***************************************************************************)
(* Bounds of the model.                                                    *)
(***************************************************************************)
MaxPlugins == 2      \* longest config.plugins list
MaxRuns == 2         \* number of successive `rz sync` invocations
MaxAssets == 2       \* longest asset list of a release

(***************************************************************************)
(* Option<T>                                                               *)
(***************************************************************************)
None == [some |-> FALSE]
Some(x) == [some |-> TRUE, v |-> x]

\* Option::unwrap_or
UnwrapOr(o, d) == IF o.some THEN o.v ELSE d

(***************************************************************************)
(* String helpers                                                          *)
(***************************************************************************)
RECURSIVE ReplaceSlash(_)
\* pl.repo.replace('/', "__")
ReplaceSlash(s) ==
    IF s = <<>> THEN <<>>
    ELSE (IF Head(s) = "/" THEN <<"_", "_">> ELSE <<Head(s)>>) \o ReplaceSlash(Tail(s))

\* pl.repo.trim().is_empty()
TrimIsEmpty(s) == \A i \in 1..Len(s) : s[i] \in {" ", "\t", "\n"}

\* the path components the code names
ReposName == <<"r", "e", "p", "o", "s">>
PluginsName == <<"p", "l", "u", "g", "i", "n", "s">>
RzName == <<".", "r", "z">>

\* base.join(".rz") of rz_home_from_env
RzHome(base) == Append(base, RzName)

\* paths(): plugins and repos under rz_home()
PathsOf(base) == [plugins |-> Append(RzHome(base), PluginsName),
                  repos   |-> Append(RzHome(base), ReposName)]

RECURSIVE SplitSlash(_, _)
\* the pieces of a string between its '/' characters; cur is the piece being read
SplitSlash(s, cur) ==
    IF s = <<>> THEN <<cur>>
    ELSE IF Head(s) = "/" THEN <<cur>> \o SplitSlash(Tail(s), <<>>)
    ELSE SplitSlash(Tail(s), Append(cur, Head(s)))

\* Path::components of a relative string: empty pieces and "." are dropped
Components(s) ==
    SelectSeq(SplitSlash(s, <<>>), LAMBDA c : c # <<>> /\ c # <<".">>)

\* Path::join: the string is read as a path; an absolute one replaces the base
Join(path, s) ==
    IF s # <<>> /\ Head(s) = "/" THEN Components(s) ELSE path \o Components(s)

\* the final component of a path (Path::file_name)
FileName(path) == path[Len(path)]

(***************************************************************************)
(* build_jobs                                                              *)
(***************************************************************************)
\* names the shell answers `command -v` for without looking at PATH
ShellBuiltins == {"cd"}

\* `sh -c "command -v <cmd>"` succeeds: the shell finds an executable of that
\* name on PATH, or the name is one the shell itself knows (a builtin), or
\* the string is empty and `command -v` has nothing to look up.
CommandExists(cmd, onPath) ==
    \/ cmd \in onPath
    \/ cmd \in ShellBuiltins
    \/ cmd = ""

\* the url of a job: the github shorthand or the literal source
JobUrl(pl) ==
    IF pl.source \in {"", "github"}
    THEN <<"https://github.com/">> \o pl.repo \o <<".git">>
    ELSE <<pl.source>>

\* whether the loop body `continue`s for this plugin
Skipped(pl, onPath) ==
    \/ \E c \in pl.requires : ~CommandExists(c, onPath)
    \/ TrimIsEmpty(pl.repo)

\* the SyncJob pushed for one plugin
MakeJob(pl, p) ==
    LET slug == ReplaceSlash(pl.repo)
        plug_name == UnwrapOr(pl.name, slug)
    IN [display    |-> UnwrapOr(pl.name, pl.repo),
        url        |-> JobUrl(pl),
        repo_dir   |-> Join(p.repos, slug),
        link_path  |-> Join(p.plugins, plug_name),
        kind_fpath |-> (pl.type = Some("fpath")),
        file_hint  |-> pl.file,
        rev        |-> pl.rev]

RECURSIVE JobsOf(_, _, _)
\* the Vec<SyncJob> of build_jobs, in config order
JobsOf(plugins, p, onPath) ==
    IF plugins = <<>> THEN <<>>
    ELSE IF Skipped(Head(plugins), onPath)
         THEN JobsOf(Tail(plugins), p, onPath)
         ELSE <<MakeJob(Head(plugins), p)>> \o JobsOf(Tail(plugins), p, onPath)

\* expect_plugin_names
ExpectPluginNames(plugins, onPath) ==
    {UnwrapOr(plugins[i].name, ReplaceSlash(plugins[i].repo)) :
        i \in {k \in 1..Len(plugins) : ~Skipped(plugins[k], onPath)}}

\* expect_repo_slugs
ExpectRepoSlugs(plugins, onPath) ==
    {ReplaceSlash(plugins[i].repo) :
        i \in {k \in 1..Len(plugins) : ~Skipped(plugins[k], onPath)}}

\* build_jobs(cfg, p)
BuildJobs(cfg, p, onPath) ==
    [jobs                |-> JobsOf(cfg, p, onPath),
     expect_plugin_names |-> ExpectPluginNames(cfg, onPath),
     expect_repo_slugs   |-> ExpectRepoSlugs(cfg, onPath)]

(***************************************************************************)
(* The git backend (git2_backend.rs).  A working copy is a record          *)
(*   heads      local branches        (branch name -> commit)              *)
(*   remotes    refs/remotes/origin/* (branch name -> commit)              *)
(*   originHead the branch refs/remotes/origin/HEAD points to, "" if none  *)
(*   tags       refs/tags/*           (tag name -> peeled commit)          *)
(*   objs       the commits in the object database                         *)
(*   HEAD       attached to a branch, or detached at a commit              *)
(*   wt         the commit whose tree the index and working tree hold      *)
(*   dirty      the working tree has a local modification                  *)
(*   conflicting the modified file differs between the commits (a safe     *)
(*              checkout to another commit refuses to overwrite it)        *)
(*   subs       the sub-repositories initialised and updated               *)
(* and a remote is a record  up, heads, head, tags.                        *)
(***************************************************************************)
Absent == [git |-> FALSE]

Attached(b) == [attached |-> TRUE, branch |-> b, commit |-> ""]
Detached(c) == [attached |-> FALSE, branch |-> "", commit |-> c]

\* g's bindings laid over f's
Override(f, g) ==
    [x \in DOMAIN f \cup DOMAIN g |-> IF x \in DOMAIN g THEN g[x] ELSE f[x]]

Range(f) == {f[x] : x \in DOMAIN f}

\* the commit HEAD resolves to ("" for an unborn branch)
HeadCommit(r) ==
    IF r.HEAD.attached
    THEN (IF r.HEAD.branch \in DOMAIN r.heads THEN r.heads[r.HEAD.branch] ELSE "")
    ELSE r.HEAD.commit

Ok(r) == [ok |-> TRUE, err |-> "", repo |-> r]
Err(e, r) == [ok |-> FALSE, err |-> e, repo |-> r]

\* F applied to the value of x
Pipe(x, F(_)) == CHOOSE out \in {F(v) : v \in {x}} : TRUE

\* the `?` operator: an Err is returned as it is, an Ok goes on with K
Try(res, K(_)) == Pipe(res, LAMBDA r : IF r.ok THEN K(r.repo) ELSE r)

\* the sub-repositories the tree of a commit declares (.gitmodules)
SubmodulesOf(c) == IF c = "c4" THEN {"sub"} ELSE {}

\* the sub-repositories a sub-repository's own tree declares
NestedSubmodulesOf(sub) == IF sub = "sub" THEN {"sub/dep"} ELSE {}

\* the sub-repositories of a commit at any depth
AllSubmodulesOf(c) ==
    SubmodulesOf(c) \cup UNION {NestedSubmodulesOf(sub) : sub \in SubmodulesOf(c)}

\* update_submodules: init and update each sub-repository repo.submodules()
\* lists, which are those the working copy itself declares
UpdateSubmodules(r) == Ok([r EXCEPT !.subs = SubmodulesOf(r.wt)])

\* RepoBuilder::clone: fetch everything, create the default branch, check it out
Clone(rem) ==
    IF ~rem.up THEN Err("git clone", Absent)
    ELSE Ok([git        |-> TRUE,
             heads      |-> (rem.head :> rem.heads[rem.head]),
             remotes    |-> rem.heads,
             originHead |-> rem.head,
             tags       |-> rem.tags,
             objs       |-> Range(rem.heads) \cup Range(rem.tags),
             HEAD       |-> Attached(rem.head),
             wt         |-> rem.heads[rem.head],
             dirty      |-> FALSE,
             conflicting |-> FALSE,
             subs       |-> {}])

\* fetch_origin: refs/heads/* -> refs/remotes/origin/*, refs/tags/* -> refs/tags/*
FetchOrigin(r, rem) ==
    IF ~rem.up THEN Err("git fetch origin", r)
    ELSE Ok([r EXCEPT !.remotes = Override(r.remotes, rem.heads),
                      !.tags = Override(r.tags, rem.tags),
                      !.objs = r.objs \cup Range(rem.heads) \cup Range(rem.tags)])

\* repo.set_head(refs/heads/<b>)
SetHead(r, b) == [r EXCEPT !.HEAD = Attached(b)]

\* repo.set_head_detached(c)
SetHeadDetached(r, c) == [r EXCEPT !.HEAD = Detached(c)]

\* repo.checkout_head(Some(CheckoutBuilder::new().force()))
CheckoutHeadForce(r) ==
    [r EXCEPT !.wt = HeadCommit(r), !.dirty = FALSE, !.conflicting = FALSE]

\* repo.reset(c, ResetType::Hard, None): moves what HEAD points at, index and tree
ResetHard(r, c) ==
    [r EXCEPT !.heads = IF r.HEAD.attached
                        THEN Override(r.heads, r.HEAD.branch :> c) ELSE r.heads,
              !.HEAD = IF r.HEAD.attached THEN r.HEAD ELSE Detached(c),
              !.wt = c,
              !.dirty = FALSE,
              !.conflicting = FALSE]

\* repo.checkout_tree(c, None): a safe checkout, refused on a conflicting local
\* change; a local change it need not overwrite stays in the working tree
CheckoutTreeSafe(r, c) ==
    IF r.dirty /\ r.conflicting /\ c # r.wt THEN Err("checkout conflict", r)
    ELSE Ok([r EXCEPT !.wt = c])

\* repo.branch(name, c, true)
CreateBranch(r, b, c) == [r EXCEPT !.heads = Override(r.heads, b :> c)]

\* repo.find_branch(b, Local), or else repo.branch(b, c, true)
FindOrCreateBranch(r, b, c) == IF b \in DOMAIN r.heads THEN r ELSE CreateBranch(r, b, c)

\* a checkout_attach_to_reference that leaves HEAD detached at the branch's commit
CheckoutDetachedAtBranch(r, b) == Ok(CheckoutHeadForce(SetHeadDetached(r, r.heads[b])))

\* checkout_attach_to_reference
CheckoutAttachToReference(r, b) == Ok(Pipe(SetHead(r, b), CheckoutHeadForce))

\* a tag / commit arm that checks the tree out and leaves HEAD where it was
CheckoutTreeOnly(r, c) == CheckoutTreeSafe(r, c)

\* the tag / commit arm of checkout_rev: checkout_tree, then set_head_detached
CheckoutDetached(r, c) ==
    Try(CheckoutTreeSafe(r, c), LAMBDA r1 : Ok(SetHeadDetached(r1, c)))

\* the remote-branch arm of checkout_rev
CheckoutRemoteBranch(r, rev) ==
    Pipe(FindOrCreateBranch(r, rev, r.remotes[rev]),
         LAMBDA r1 : Pipe(ResetHard(r1, r.remotes[rev]),
                          LAMBDA r2 : CheckoutAttachToReference(r2, rev)))

\* a checkout_rev that looks for a tag before it looks for a branch
CheckoutRevTagFirst(r, rev) ==
    IF rev \in DOMAIN r.tags THEN CheckoutDetached(r, r.tags[rev])
    ELSE IF rev \in DOMAIN r.heads THEN CheckoutAttachToReference(r, rev)
    ELSE IF rev \in DOMAIN r.remotes THEN CheckoutRemoteBranch(r, rev)
    ELSE IF rev \in r.objs THEN CheckoutDetached(r, rev)
    ELSE Err("rev not found", r)

\* a checkout_rev that falls back to the default branch when nothing matches
CheckoutRevOrDefault(r, rev) ==
    IF rev \in DOMAIN r.heads THEN CheckoutAttachToReference(r, rev)
    ELSE IF rev \in DOMAIN r.remotes THEN CheckoutRemoteBranch(r, rev)
    ELSE IF rev \in DOMAIN r.tags THEN CheckoutDetached(r, r.tags[rev])
    ELSE IF rev \in r.objs THEN CheckoutDetached(r, rev)
    ELSE IF r.originHead \in DOMAIN r.remotes
    THEN CheckoutRemoteBranch(CreateBranch(r, r.originHead, r.remotes[r.originHead]),
                              r.originHead)
    ELSE Err("rev not found", r)

\* checkout_rev
CheckoutRev(r, rev) ==
    IF rev \in DOMAIN r.heads THEN CheckoutAttachToReference(r, rev)
    ELSE IF rev \in DOMAIN r.remotes THEN CheckoutRemoteBranch(r, rev)
    ELSE IF rev \in DOMAIN r.tags THEN CheckoutDetached(r, r.tags[rev])
    ELSE IF rev \in r.objs THEN CheckoutDetached(r, rev)
    ELSE Err("rev not found", r)

\* a choice of default branch that prefers origin/main to origin/HEAD
DefaultMainFirst(r) ==
    IF "main" \in DOMAIN r.remotes THEN "main"
    ELSE IF r.originHead # "" THEN r.originHead
    ELSE IF "master" \in DOMAIN r.remotes THEN "master"
    ELSE ""

\* the remote-tracking branch attach_default_branch chooses, "" when there is none
DefaultRemoteRef(r) ==
    IF r.originHead # "" THEN r.originHead
    ELSE IF "main" \in DOMAIN r.remotes THEN "main"
    ELSE IF "master" \in DOMAIN r.remotes THEN "master"
    ELSE ""

\* attach_default_branch once the branch is chosen: set_head, reset, checkout_head
AttachBranch(r, branch_name) ==
    Pipe(FindOrCreateBranch(r, branch_name, r.remotes[branch_name]),
         LAMBDA r1 : Pipe(SetHead(r1, branch_name),
                          LAMBDA r2 : Pipe(ResetHard(r2, r.remotes[branch_name]),
                                           LAMBDA r3 : Ok(CheckoutHeadForce(r3)))))

\* attach_default_branch
AttachDefaultBranch(r) ==
    IF DefaultRemoteRef(r) = "" THEN Err("could not determine default branch", r)
    ELSE IF DefaultRemoteRef(r) \notin DOMAIN r.remotes THEN Err("reference not found", r)
    ELSE AttachBranch(r, DefaultRemoteRef(r))

\* the `if let Some(r) = rev` of ensure_repo
CheckoutStep(r, rev) ==
    IF rev.some THEN CheckoutRev(r, rev.v) ELSE AttachDefaultBranch(r)

\* an ensure_repo that decides the checkout first and fetches afterwards
EnsureCheckoutThenFetch(cur, rem, rev) ==
    Try(CheckoutStep(cur, rev),
        LAMBDA r1 : Try(FetchOrigin(r1, rem), UpdateSubmodules))

\* ensure_repo on an existing checkout: fetch, checkout, submodules
EnsureExisting(cur, rem, rev) ==
    Try(FetchOrigin(cur, rem),
        LAMBDA r1 : Try(CheckoutStep(r1, rev), UpdateSubmodules))

\* ensure_repo without a checkout: clone, checkout (after a fetch when no rev), submodules
EnsureFresh(rem, rev) ==
    Try(Clone(rem),
        LAMBDA r1 : Try(IF rev.some THEN Ok(r1) ELSE FetchOrigin(r1, rem),
                        LAMBDA r2 : Try(CheckoutStep(r2, rev), UpdateSubmodules)))

\* ensure_repo(url, dest, rev): cur is what dest holds, rem the remote behind url
EnsureRepo(cur, rem, rev) ==
    IF cur.git THEN EnsureExisting(cur, rem, rev) ELSE EnsureFresh(rem, rev)

(***************************************************************************)
(* The world the model runs in: the plugin entries a config may hold, the  *)
(* remotes behind their urls, and the trees of the remotes' commits.       *)
(***************************************************************************)
RepoAB == <<"a", "/", "b">>
RepoCD == <<"c", "/", "d">>
RepoEF == <<"e", "/", "f">>
NameAB == <<"a", "_", "_", "b">>
BPluginZsh == <<"b", ".", "p", "l", "u", "g", "i", "n", ".", "z", "s", "h">>
InitZsh == <<"i", "n", "i", "t", ".", "z", "s", "h">>
CompFile == <<"_", "d">>

\* [[plugins]] entries (settings::Plugin); fpath_dirs is not read by sync
Plugin(repo, name, rev, type) ==
    [source |-> "github", repo |-> repo, rev |-> rev, file |-> None,
     type |-> type, name |-> name, requires |-> {}]

PlAB == Plugin(RepoAB, None, Some("dev"), None)
PlCD == Plugin(RepoCD, None, None, Some("fpath"))
PlCDasAB == Plugin(RepoCD, Some(NameAB), None, Some("fpath"))
PlEFasAB == Plugin(RepoEF, Some(NameAB), None, None)

PluginPool == {PlAB, PlCD, PlCDasAB, PlEFasAB}

RECURSIVE SeqsUpTo(_, _)
\* the sequences over S of length at most n
SeqsUpTo(S, n) ==
    IF n = 0 THEN {<<>>}
    ELSE LET shorter == SeqsUpTo(S, n - 1)
         IN shorter \cup {Append(q, x) : q \in {t \in shorter : Len(t) = n - 1}, x \in S}

Configs == SeqsUpTo(PluginPool, MaxPlugins)

UrlAB == JobUrl(PlAB)
UrlCD == JobUrl(PlCD)
UrlEF == JobUrl(PlEFasAB)

\* the remotes: a/b and c/d are reachable, e/f is not
Remotes ==
    (UrlAB :> [up |-> TRUE, head |-> "main",
               heads |-> ("main" :> "c1" @@ "dev" :> "c2"),
               tags |-> ("v1" :> "c1" @@ "dev" :> "c1")])
    @@ (UrlCD :> [up |-> TRUE, head |-> "master",
                  heads |-> ("master" :> "c3"), tags |-> <<>>])
    @@ (UrlEF :> [up |-> FALSE, head |-> "main",
                  heads |-> ("main" :> "c5"), tags |-> <<>>])

\* the top-level files of a commit's tree
TreeFiles(c) ==
    CASE c = "c1" -> {BPluginZsh}
      [] c = "c2" -> {BPluginZsh, InitZsh}
      [] c = "c3" -> {CompFile}
      [] OTHER -> {InitZsh}

\* the bases rz_home() is resolved under: /h, and /l, a symlink to /repos
Bases == {<<(<<"h">>)>>, <<(<<"l">>)>>}

\* the directory a base really is (symlinks resolved)
RealBase(base) == IF base = <<(<<"l">>)>> THEN <<ReposName>> ELSE base

(***************************************************************************)
(* The filesystem under rz_home(): plugins/ maps an entry name to a        *)
(* symlink (with its target path), a regular file or a directory; repos/   *)
(* maps a slug to a working copy or to a directory that is no checkout.    *)
(***************************************************************************)
Symlink(target) == [kind |-> "symlink", target |-> target]
RegularFile == [kind |-> "file", target |-> <<>>]
Directory == [kind |-> "dir", target |-> <<>>]

\* a directory under repos/ that is no checkout; locked: it cannot be removed
PlainDir(locked) == [git |-> FALSE, locked |-> locked]

\* is `path` a path under `dir`
Under(path, dir) == Len(path) > Len(dir) /\ SubSeq(path, 1, Len(dir)) = dir

\* Path::exists / is_file of a path below repos/ (symlinks followed)
RepoPathExists(path, p, rs) ==
    /\ Under(path, p.repos)
    /\ path[Len(p.repos) + 1] \in DOMAIN rs
    /\ \/ Len(path) = Len(p.repos) + 1
       \/ /\ Len(path) = Len(p.repos) + 2
          /\ rs[path[Len(p.repos) + 1]].git
          /\ path[Len(path)] \in TreeFiles(rs[path[Len(p.repos) + 1]].wt)

\* job.link_path.exists(): follows a symlink to its target
LinkPathExists(name, p, pl, rs) ==
    /\ name \in DOMAIN pl
    /\ pl[name].kind = "symlink" => RepoPathExists(pl[name].target, p, rs)

\* fs::remove_file fails on a directory
RemoveFileFails(name, pl) == pl[name].kind = "dir"

\* fs::remove_dir_all fails on a tree it may not write to
RemoveDirAllFails(slug, rs) == ~rs[slug].git /\ rs[slug].locked

\* the function f without x
Without(f, x) == [y \in DOMAIN f \ {x} |-> f[y]]

\* the function f restricted to S
Restrict(f, S) == [y \in DOMAIN f \cap S |-> f[y]]

\* fs::canonicalize: fails on a path that does not exist, else resolves symlinks
Canonicalize(path, base, p, rs) ==
    IF RepoPathExists(path, p, rs)
    THEN Some(RealBase(base) \o SubSeq(path, Len(base) + 1, Len(path)))
    ELSE None

(***************************************************************************)
(* resolve_source_file                                                     *)
(***************************************************************************)
\* a name ends in suffix: what the glob "*" + suffix asks of a name
EndsWith(name, suffix) ==
    /\ Len(name) >= Len(suffix)
    /\ SubSeq(name, Len(name) - Len(suffix) + 1, Len(name)) = suffix

SuffixPluginZsh == <<".", "p", "l", "u", "g", "i", "n", ".", "z", "s", "h">>
SuffixZsh == <<".", "z", "s", "h">>
SuffixZshTheme == <<".", "z", "s", "h", "-", "t", "h", "e", "m", "e">>

\* the patterns resolve_source_file tries, in its order
Patterns == << <<"*">> \o SuffixPluginZsh, <<"*">> \o SuffixZsh, <<"*">> \o SuffixZshTheme >>

RECURSIVE GlobBody(_)
\* the loop of glob_to_regex: '*' becomes ".*", '.' becomes "\.", the rest is copied
GlobBody(pat) ==
    IF pat = <<>> THEN <<>>
    ELSE (IF Head(pat) = "*" THEN <<".*">>
          ELSE IF Head(pat) = "." THEN <<"\\.">>
          ELSE <<Head(pat)>>) \o GlobBody(Tail(pat))

\* glob_to_regex: the regex as a sequence of tokens
GlobToRegex(pat) == <<"^">> \o GlobBody(pat) \o <<"$">>

RECURSIVE MatchHere(_, _)
\* the tokens re match at the start of s: ".*" takes characters other than a
\* line break, "$" stands at the end of the text only
MatchHere(re, s) ==
    IF re = <<>> THEN TRUE
    ELSE IF Head(re) = "$" THEN s = <<>> /\ MatchHere(Tail(re), s)
    ELSE IF Head(re) = ".*"
    THEN \E k \in 0..Len(s) :
            /\ \A m \in 1..k : s[m] # "\n"
            /\ MatchHere(Tail(re), SubSeq(s, k + 1, Len(s)))
    ELSE IF Head(re) = "\\." THEN s # <<>> /\ Head(s) = "." /\ MatchHere(Tail(re), Tail(s))
    ELSE s # <<>> /\ Head(s) = Head(re) /\ MatchHere(Tail(re), Tail(s))

\* Regex::is_match for a regex that starts with "^"
IsMatch(re, s) == MatchHere(Tail(re), s)

\* glob1: the directory entries (files and directories alike) whose name the
\* pattern's regex matches; read_dir's order picks the one returned
Glob1(entries, pat) == {f \in DOMAIN entries : IsMatch(GlobToRegex(pat), f)}

\* resolve_source_file: the names it may return; none when it fails.  entries
\* maps the names at the top of the repository to "file" or "dir".
ResolveSourceFile(entries, hint) ==
    IF hint.some /\ hint.v \in DOMAIN entries /\ entries[hint.v] = "file" THEN {hint.v}
    ELSE Pipe(Glob1(entries, Patterns[1]),
              LAMBDA g1 : IF g1 # {} THEN g1
                          ELSE Pipe(Glob1(entries, Patterns[2]),
                                    LAMBDA g2 : IF g2 # {} THEN g2
                                                ELSE Glob1(entries, Patterns[3])))

(***************************************************************************)
(* cleanup.rs                                                              *)
(***************************************************************************)
\* extract_slug: the component after the first `repos` component
ExtractSlug(path) ==
    LET hits == {i \in 1..Len(path) : path[i] = ReposName}
    IN IF hits = {} THEN None
       ELSE LET i == CHOOSE k \in hits : \A m \in hits : k <= m
            IN IF i < Len(path) THEN Some(path[i + 1]) ELSE None

\* the in_use set of cleanup_stale_repos
InUse(pl, base, p, rs) ==
    LET slugOf(n) ==
            ExtractSlug(UnwrapOr(Canonicalize(pl[n].target, base, p, rs), pl[n].target))
        links == {n \in DOMAIN pl : pl[n].kind = "symlink"}
    IN {slugOf(n).v : n \in {m \in links : slugOf(m).some}}

\* a cleanup_stale_plugins that deletes nothing
CleanupKeepsEveryLink(pl, expect) == pl

\* a cleanup_stale_repos that does not look at the links
CleanupIgnoresInUse(rs, expect_slugs, in_use) ==
    Restrict(rs, {g \in DOMAIN rs : g \in expect_slugs \/ RemoveDirAllFails(g, rs)})

\* cleanup_stale_plugins: the bar of each entry it tried to delete
CleanupPluginBars(pl, expect) ==
    [n \in {m \in DOMAIN pl : m \notin expect} |->
        IF RemoveFileFails(n, pl) THEN "err" ELSE "ok"]

\* cleanup_stale_repos: the bar of each directory it tried to delete
CleanupRepoBars(rs, expect_slugs, in_use) ==
    [g \in {h \in DOMAIN rs : h \notin expect_slugs /\ h \notin in_use} |->
        IF RemoveDirAllFails(g, rs) THEN "err" ELSE "ok"]

\* a cleanup_stale_plugins that gives up at a deletion that fails
CleanupStopsAtFailure(pl, expect) ==
    IF \E n \in DOMAIN pl : n \notin expect /\ RemoveFileFails(n, pl)
    THEN pl
    ELSE Restrict(pl, DOMAIN pl \cap expect)

\* cleanup_stale_plugins: what plugins/ holds afterwards
CleanupStalePlugins(pl, expect) ==
    Restrict(pl, {n \in DOMAIN pl : n \in expect \/ RemoveFileFails(n, pl)})

\* cleanup_stale_repos: what repos/ holds afterwards
CleanupStaleRepos(rs, expect_slugs, in_use) ==
    Restrict(rs, {g \in DOMAIN rs :
                    g \in expect_slugs \/ g \in in_use \/ RemoveDirAllFails(g, rs)})

(***************************************************************************)
(* State of `rz sync` (cmd_sync).                                          *)
(***************************************************************************)
VARIABLES
    base,       \* the directory rz_home() is resolved under
    cfg,        \* config.toml: the [[plugins]] list
    remote,     \* url -> remote repository
    plugins,    \* the link directory: entry name -> entry
    repos,      \* the repository directory: slug -> working copy
    phase,      \* where cmd_sync is: idle, jobs, cleanup_repos, done
    run,        \* invocations of cmd_sync started so far
    jobs,       \* the Vec<SyncJob> of build_jobs
    expect,     \* expect_plugin_names and expect_repo_slugs
    jst,        \* per job: the closure's position, its result, the resolved target
    bars,       \* per job: the state of its progress bar (its status slot)
    preClean,   \* history: plugins/ and repos/ when the cleanup passes started, and the run
    snap,       \* history: config and filesystem at the end of the previous run
    last,       \* history: the latest ensure_repo call made on its own
    arg,        \* the arguments of a function called on its own
    ret,        \* what that call returned
    bin,        \* the binary directory: file name -> file
    upg,        \* cmd_upgrade: its position, the steps it ran and its locals
    cbars       \* per entry a cleanup pass tried to delete: the state of its bar

vars == <<base, cfg, remote, plugins, repos, phase, run, jobs, expect, jst, bars,
          preClean, snap, last, arg, ret, bin, upg, cbars>>

\* the entries a user may have left under plugins/ and repos/ before the first run
StrayName == <<"x">>
StrayDirName == <<"k">>
StrayPlugins == (StrayName :> RegularFile) @@ (StrayDirName :> Directory)
StrayRepos == (StrayName :> PlainDir(FALSE)) @@ (StrayDirName :> PlainDir(TRUE))

\* a link an earlier version of plugin a/b left behind: its source file has
\* since been renamed upstream and no longer exists in the checkout
OldZsh == <<"o", ".", "z", "s", "h">>
StaleLinks(p) == NameAB :> Symlink(p.repos \o <<NameAB, OldZsh>>)

NoSnap == [valid |-> FALSE]
NoCall == [called |-> FALSE]
NoArg == <<>>
NoRet == [done |-> FALSE]

\* no cleanup pass has added a bar
NoCleanupBars == [plugins |-> <<>>, repos |-> <<>>]

\* the binary directory and cmd_upgrade while no upgrade is looked at
NoBin == <<>>
UpStart ==
    [pc |-> "start", steps |-> <<>>, rel |-> None, asset |-> None, downloaded |-> None,
     extracted |-> None, outcome |-> "", err |-> ""]

Init ==
    /\ base \in Bases
    /\ cfg \in Configs
    /\ remote = Remotes
    /\ \E stray \in BOOLEAN :
          /\ plugins = (IF stray THEN StrayPlugins @@ StaleLinks(PathsOf(base)) ELSE <<>>)
          /\ repos = (IF stray THEN StrayRepos ELSE <<>>)
    /\ phase = "idle"
    /\ run = 0
    /\ jobs = <<>>
    /\ expect = [names |-> {}, slugs |-> {}]
    /\ jst = <<>>
    /\ bars = <<>>
    /\ preClean = [plugins |-> <<>>, repos |-> <<>>, run |-> 0]
    /\ snap = NoSnap
    /\ last = NoCall
    /\ arg = NoArg
    /\ ret = NoRet
    /\ bin = NoBin
    /\ upg = UpStart
    /\ cbars = NoCleanupBars

P == PathsOf(base)

Terminal == {"ok", "err"}

\* the positions of a closure that has not returned
StepPcs == {"ensure", "exists", "remove", "target", "symlink"}

\* cmd_sync up to the early return: nothing is declared, nothing is done
SyncEmpty ==
    /\ phase = "idle"
    /\ run < MaxRuns
    /\ cfg = <<>>
    /\ phase' = "done"
    /\ run' = run + 1
    /\ jobs' = <<>>
    /\ expect' = [names |-> {}, slugs |-> {}]
    /\ jst' = <<>>
    /\ bars' = <<>>
    /\ cbars' = NoCleanupBars
    /\ UNCHANGED <<base, cfg, remote, plugins, repos, preClean, snap, last, arg, ret, bin, upg>>

\* cmd_sync up to the fan-out: build the jobs, one spinner per job
SyncStart ==
    /\ phase = "idle"
    /\ run < MaxRuns
    /\ cfg # <<>>
    /\ LET b == BuildJobs(cfg, P, {})
       IN /\ jobs' = b.jobs
          /\ expect' = [names |-> b.expect_plugin_names, slugs |-> b.expect_repo_slugs]
          /\ jst' = [i \in 1..Len(b.jobs) |-> [pc |-> "ensure", res |-> "", src |-> <<>>]]
          /\ bars' = [i \in 1..Len(b.jobs) |-> "running"]
    /\ phase' = "jobs"
    /\ run' = run + 1
    /\ cbars' = NoCleanupBars
    /\ UNCHANGED <<base, cfg, remote, plugins, repos, preClean, snap, last, arg, ret, bin, upg>>

\* a for_each in which the first error ends every closure still running
FinishAbortsSiblings(i, res) ==
    /\ jst' = [k \in DOMAIN jst |->
                 IF k = i THEN [pc |-> "done", res |-> res, src |-> jst[k].src]
                 ELSE IF res # "" /\ jst[k].pc # "done"
                      THEN [pc |-> "done", res |-> res, src |-> jst[k].src]
                 ELSE jst[k]]
    /\ bars' = [k \in DOMAIN bars |->
                 IF k = i THEN (IF res = "" THEN "ok" ELSE "err")
                 ELSE IF res # "" /\ jst[k].pc # "done" THEN "err"
                 ELSE bars[k]]

\* a `match res` that reports on the first bar, whichever job returned
FinishOnFirstBar(i, res) ==
    /\ jst' = [jst EXCEPT ![i] = [pc |-> "done", res |-> res, src |-> @.src]]
    /\ bars' = [bars EXCEPT ![1] = IF res = "" THEN "ok" ELSE "err"]

\* the closure of job i returned res: `match res` sets the job's own bar
Finish(i, res) ==
    /\ jst' = [jst EXCEPT ![i] = [pc |-> "done", res |-> res, src |-> @.src]]
    /\ bars' = [bars EXCEPT ![i] = IF res = "" THEN "ok" ELSE "err"]

\* the closure of job i moves on to pc
Goto(i, pc) ==
    /\ jst' = [jst EXCEPT ![i].pc = pc]
    /\ UNCHANGED bars

\* repos/ with the outcome of ensure_repo stored at slug
StoreRepo(rs, slug, r) ==
    [ok |-> r.ok, err |-> r.err,
     repos |-> IF r.repo.git THEN Override(rs, slug :> r.repo) ELSE rs]

\* ensure_repo on what repos/ holds at the job's repo_dir
EnsureRepoAt(rs, slug, rem, rev) ==
    IF slug \in DOMAIN rs /\ ~rs[slug].git
    THEN [ok |-> FALSE, err |-> "git clone", repos |-> rs]
    ELSE Pipe(EnsureRepo(IF slug \in DOMAIN rs THEN rs[slug] ELSE Absent, rem, rev),
              LAMBDA r : StoreRepo(rs, slug, r))

\* a closure that goes on to the link after a failed ensure_repo
AfterEnsureGoesOn(i, r) == Goto(i, "exists")

\* the `?` on ensure_repo: an error is the closure's result
AfterEnsure(i, r) == IF r.ok THEN Goto(i, "exists") ELSE Finish(i, r.err)

\* ensure_repo(&job.url, &job.repo_dir, job.rev)?
JobEnsure(i) ==
    /\ phase = "jobs"
    /\ jst[i].pc = "ensure"
    /\ \E r \in {EnsureRepoAt(repos, FileName(jobs[i].repo_dir), remote[jobs[i].url],
                                jobs[i].rev)} :
          /\ repos' = r.repos
          /\ AfterEnsure(i, r)
    /\ UNCHANGED <<base, cfg, remote, plugins, phase, run, jobs, expect, preClean, snap, last, arg, ret, bin, upg, cbars>>

\* if job.link_path.exists()
JobExists(i) ==
    /\ phase = "jobs"
    /\ jst[i].pc = "exists"
    /\ IF LinkPathExists(FileName(jobs[i].link_path), P, plugins, repos)
       THEN Goto(i, "remove") ELSE Goto(i, "target")
    /\ UNCHANGED <<base, cfg, remote, plugins, repos, phase, run, jobs, expect,
                   preClean, snap, last, arg, ret, bin, upg, cbars>>

\* let _ = fs::remove_file(&job.link_path)
JobRemove(i) ==
    /\ phase = "jobs"
    /\ jst[i].pc = "remove"
    /\ LET name == FileName(jobs[i].link_path)
       IN plugins' = IF name \in DOMAIN plugins /\ ~RemoveFileFails(name, plugins)
                     THEN Without(plugins, name) ELSE plugins
    /\ Goto(i, "target")
    /\ UNCHANGED <<base, cfg, remote, repos, phase, run, jobs, expect, preClean, snap, last, arg, ret, bin, upg, cbars>>

\* read_dir of a job's repo_dir: the top-level entries of the checkout
RepoEntries(slug, rs) ==
    IF slug \in DOMAIN rs /\ rs[slug].git
    THEN [f \in TreeFiles(rs[slug].wt) |-> "file"]
    ELSE <<>>

\* the target of the link: the repository for fpath, else resolve_source_file(..)?
JobTarget(i) ==
    /\ phase = "jobs"
    /\ jst[i].pc = "target"
    /\ IF jobs[i].kind_fpath
       THEN /\ jst' = [jst EXCEPT ![i].pc = "symlink", ![i].src = jobs[i].repo_dir]
            /\ UNCHANGED bars
       ELSE \E found \in {ResolveSourceFile(RepoEntries(FileName(jobs[i].repo_dir), repos),
                                            jobs[i].file_hint)} :
               IF found = {} THEN Finish(i, "no plugin file matched")
               ELSE /\ \E f \in found :
                          jst' = [jst EXCEPT ![i].pc = "symlink",
                                             ![i].src = Join(jobs[i].repo_dir, f)]
                    /\ UNCHANGED bars
    /\ UNCHANGED <<base, cfg, remote, plugins, repos, phase, run, jobs, expect,
                   preClean, snap, last, arg, ret, bin, upg, cbars>>

\* symlink(&src, &job.link_path)?
JobSymlink(i) ==
    /\ phase = "jobs"
    /\ jst[i].pc = "symlink"
    /\ LET name == FileName(jobs[i].link_path)
       IN IF name \in DOMAIN plugins
          THEN /\ Finish(i, "File exists")
               /\ UNCHANGED plugins
          ELSE /\ plugins' = Override(plugins, name :> Symlink(jst[i].src))
               /\ Finish(i, "")
    /\ UNCHANGED <<base, cfg, remote, repos, phase, run, jobs, expect, preClean, snap, last, arg, ret, bin, upg, cbars>>

\* a for_each that returns as soon as one closure has returned
FirstReturned(st) == \E i \in DOMAIN st : st[i].pc = "done"

\* par_iter().for_each returns when every closure has returned
ForEachReturned(st) == \A i \in DOMAIN st : st[i].pc = "done"

\* cleanup_stale_plugins(&mp, &p.plugins, &expect_plugin_names)?
DoCleanupStalePlugins ==
    /\ phase = "jobs"
    /\ ForEachReturned(jst)
    /\ preClean' = [preClean EXCEPT !.plugins = plugins, !.run = run]
    /\ plugins' = CleanupStalePlugins(plugins, expect.names)
    /\ cbars' = [cbars EXCEPT !.plugins = CleanupPluginBars(plugins, expect.names)]
    /\ phase' = "cleanup_repos"
    /\ UNCHANGED <<base, cfg, remote, repos, run, jobs, expect, jst, bars, snap, last, arg, ret,
                   bin, upg>>

\* cleanup_stale_repos(&mp, &p.repos, &expect_repo_slugs, &p.plugins)?
DoCleanupStaleRepos ==
    /\ phase = "cleanup_repos"
    /\ preClean' = [preClean EXCEPT !.repos = repos]
    /\ repos' = CleanupStaleRepos(repos, expect.slugs, InUse(plugins, base, P, repos))
    /\ cbars' = [cbars EXCEPT
                    !.repos = CleanupRepoBars(repos, expect.slugs, InUse(plugins, base, P, repos))]
    /\ phase' = "done"
    /\ UNCHANGED <<base, cfg, remote, plugins, run, jobs, expect, jst, bars, snap, last, arg, ret,
                   bin, upg>>

\* between two invocations the user may edit config.toml
EditConfig ==
    /\ phase = "done"
    /\ run < MaxRuns
    /\ cfg' \in Configs
    /\ snap' = [valid |-> TRUE, cfg |-> cfg, plugins |-> plugins, repos |-> repos]
    /\ phase' = "idle"
    /\ UNCHANGED <<base, remote, plugins, repos, run, jobs, expect, jst, bars, preClean, last, arg, ret, bin, upg, cbars>>

\* one step of the closure of job i, run by a worker of the pool
JobStep(i) ==
    /\ i \in DOMAIN jst
    /\ \/ JobEnsure(i)
       \/ JobExists(i)
       \/ JobRemove(i)
       \/ JobTarget(i)
       \/ JobSymlink(i)

Next ==
    \/ SyncEmpty
    \/ SyncStart
    \/ \E i \in DOMAIN jst : JobEnsure(i)
    \/ \E i \in DOMAIN jst : JobExists(i)
    \/ \E i \in DOMAIN jst : JobRemove(i)
    \/ \E i \in DOMAIN jst : JobTarget(i)
    \/ \E i \in DOMAIN jst : JobSymlink(i)
    \/ DoCleanupStalePlugins
    \/ DoCleanupStaleRepos
    \/ EditConfig

Spec == Init /\ [][Next]_vars

\* the workers of the pool keep running the closures they were handed
FairSpec == Spec /\ \A i \in 1..MaxPlugins : WF_vars(JobStep(i))

(***************************************************************************)
(* Properties of cmd_sync.                                                 *)
(***************************************************************************)
\* both cleanup passes of the current run have been gone through
CleanedThisRun == phase = "done" /\ preClean.run = run

\* the slugs of the HEADs of the working copies under repos/
HeadStates(rs) ==
    [g \in {h \in DOMAIN rs : rs[h].git} |->
        [HEAD |-> rs[g].HEAD, commit |-> HeadCommit(rs[g]), wt |-> rs[g].wt]]

\* C1: a job's failure is recorded on its own status slot only, and a sibling
\* still runs its steps to its own outcome: every bar shows its own closure's
\* result, a job that has not returned stands at one of its own steps whatever
\* the siblings' results, a job that succeeded went through its link step, and
\* a step of one job, failing or not, leaves the state and the bar of every
\* other job as they were.
C1_FailureIsolation ==
    /\ [](phase = "jobs" =>
            \A i \in DOMAIN jst :
                /\ bars[i] = "err" <=> (jst[i].pc = "done" /\ jst[i].res # "")
                /\ bars[i] = "ok" <=> (jst[i].pc = "done" /\ jst[i].res = "")
                /\ jst[i].pc # "done" => jst[i].pc \in StepPcs /\ bars[i] = "running"
                /\ bars[i] = "ok" => jst[i].src # <<>>)
    /\ [][phase = "jobs" /\ phase' = "jobs" =>
            \E i \in DOMAIN jst :
                /\ jst[i].pc # "done"
                /\ jst'[i].pc = "done" /\ jst'[i].res = "" => jst[i].pc = "symlink"
                /\ \A j \in DOMAIN jst \ {i} : jst'[j] = jst[j] /\ bars'[j] = bars[j]]_vars

\* a run in which one job failed and its sibling succeeded
C1_Witness ==
    /\ phase = "jobs"
    /\ ForEachReturned(jst)
    /\ \E i, j \in DOMAIN jst : bars[i] = "err" /\ bars[j] = "ok"

\* C2: no cleanup pass starts before every job has reached its terminal
\* status: once cmd_sync is past the fan-out, every closure has returned and
\* every bar is finished.
C2_CleanupAfterJobs ==
    phase = "cleanup_repos" \/ CleanedThisRun =>
        \A i \in DOMAIN jst : jst[i].pc = "done" /\ bars[i] \in Terminal

\* the first cleanup pass has deleted an entry after two jobs returned
C2_Witness ==
    /\ phase = "cleanup_repos"
    /\ Len(jobs) >= 2
    /\ DOMAIN plugins # DOMAIN preClean.plugins

\* C3: under fair scheduling every job eventually reaches a terminal status;
\* a status slot changes only from running to a terminal status, only by a
\* step of its own job, and never once it is terminal.
C3_EveryJobTerminates ==
    /\ \A i \in 1..MaxPlugins :
          [](phase = "jobs" /\ i \in DOMAIN bars
                => <>(i \in DOMAIN bars /\ bars[i] \in Terminal))
    /\ [][phase = "jobs" /\ phase' = "jobs" =>
            \A i \in DOMAIN bars :
                bars'[i] # bars[i] =>
                    /\ bars[i] = "running"
                    /\ bars'[i] \in Terminal
                    /\ jst'[i] # jst[i]
                    /\ \A j \in DOMAIN jst \ {i} : jst'[j] = jst[j] /\ bars'[j] = bars[j]]_vars

\* two jobs have both reached a terminal status, one of each kind
C3_Witness ==
    /\ phase = "jobs"
    /\ Len(jobs) >= 2
    /\ \A i \in DOMAIN bars : bars[i] \in Terminal
    /\ \E i \in DOMAIN bars : bars[i] = "err"

\* C4: every sync invocation whose config loaded attempts both cleanup passes
\* before it returns, whatever the number of declared entries.
C4_AlwaysCleansUp == phase = "done" => preClean.run = run

\* C5 as claimed: after cleanup the names under plugins/ are exactly the
\* expected link names.
C5_ExactlyExpected == CleanedThisRun => DOMAIN plugins = expect.names

\* C5: after cleanup every entry left under plugins/ is expected or is one
\* whose deletion failed, every expected entry present before cleanup is kept
\* as it was, and nothing is present that was not there before cleanup.
C5_LinksAfterCleanup ==
    CleanedThisRun =>
        /\ \A n \in DOMAIN plugins :
              n \in expect.names \/ RemoveFileFails(n, preClean.plugins)
        /\ \A n \in DOMAIN preClean.plugins \cap expect.names :
              n \in DOMAIN plugins /\ plugins[n] = preClean.plugins[n]
        /\ DOMAIN plugins \subseteq DOMAIN preClean.plugins

\* a cleanup that deleted a stale link, kept an expected one and left an entry
\* it could not delete
C5_Witness ==
    /\ CleanedThisRun
    /\ \E n \in DOMAIN preClean.plugins :
          n \notin DOMAIN plugins /\ preClean.plugins[n].kind = "symlink"
    /\ \E n \in DOMAIN plugins : n \in expect.names
    /\ \E n \in DOMAIN plugins : n \notin expect.names

\* the in_use set cleanup_stale_repos computed in the current run
InUseAtCleanup == InUse(plugins, base, P, preClean.repos)

\* C6 as claimed: a directory under repos/ is deleted if and only if it is
\* neither expected nor in use.
C6_DeletedIffStale ==
    CleanedThisRun =>
        \A g \in DOMAIN preClean.repos :
            g \notin DOMAIN repos <=> (g \notin expect.slugs /\ g \notin InUseAtCleanup)

\* C6: a directory under repos/ is deleted only if it is neither expected nor
\* the identifier extracted from a surviving link's target, and then it is
\* deleted unless its removal fails; what is left is expected, in use, or could
\* not be removed.
C6_ReposAfterCleanup ==
    CleanedThisRun =>
        /\ \A g \in DOMAIN preClean.repos :
              /\ g \notin DOMAIN repos => (g \notin expect.slugs /\ g \notin InUseAtCleanup)
              /\ (g \notin expect.slugs /\ g \notin InUseAtCleanup
                    /\ ~RemoveDirAllFails(g, preClean.repos)) => g \notin DOMAIN repos
              /\ g \in DOMAIN repos => repos[g] = preClean.repos[g]
        /\ DOMAIN repos \subseteq DOMAIN preClean.repos

\* a cleanup that deleted a stale checkout and kept one that is not expected
\* but still the target of a surviving link
C6_Witness ==
    /\ CleanedThisRun
    /\ \E g \in DOMAIN preClean.repos : g \notin DOMAIN repos /\ preClean.repos[g].git
    /\ \E g \in DOMAIN repos : g \notin expect.slugs /\ g \in InUseAtCleanup

\* the plugins of a config
Declared(c) == {c[i] : i \in DOMAIN c}

\* the link name and the slug build_jobs gives a plugin
LinkNameOf(pl) == UnwrapOr(pl.name, ReplaceSlash(pl.repo))
SlugOf(pl) == ReplaceSlash(pl.repo)

\* the links under plugins/ whose target lies in repos/<slug>
LinksInto(slug) ==
    {n \in DOMAIN plugins :
        /\ plugins[n].kind = "symlink"
        /\ Under(plugins[n].target, P.repos)
        /\ plugins[n].target[Len(P.repos) + 1] = slug}

\* C7: when an entry is dropped from a synced config, the next run removes that
\* entry's link and, when no remaining link points into it, its repos/<id>.
\* (An entry counts as dropped when no remaining entry declares its link name
\* or its repository.)
C7_DroppedEntryRemoved ==
    phase = "done" /\ snap.valid =>
        \A pl \in Declared(snap.cfg) :
            (/\ LinkNameOf(pl) \notin {LinkNameOf(q) : q \in Declared(cfg)}
             /\ SlugOf(pl) \notin {SlugOf(q) : q \in Declared(cfg)})
            => /\ LinkNameOf(pl) \notin DOMAIN plugins
               /\ LinksInto(SlugOf(pl)) = {} => SlugOf(pl) \notin DOMAIN repos

\* C8: a second run with the same config leaves the links, their targets and
\* the HEAD state of the working copies as the first run left them.
C8_SecondRunChangesNothing ==
    phase = "done" /\ snap.valid /\ snap.cfg = cfg =>
        /\ plugins = snap.plugins
        /\ HeadStates(repos) = HeadStates(snap.repos)

\* C9: the jobs of build_jobs have pairwise distinct repository paths and
\* pairwise distinct link paths.
C9_DisjointJobPaths ==
    \A i, j \in DOMAIN jobs :
        i # j => /\ jobs[i].repo_dir # jobs[j].repo_dir
                 /\ jobs[i].link_path # jobs[j].link_path

(***************************************************************************)
(* ensure_repo on its own: one working copy, repos/a__b, synchronised again *)
(* and again with every kind of revision while the remote's branches move, *)
(* the network comes and goes and the user touches the working tree.       *)
(***************************************************************************)
GitSlug == ReplaceSlash(RepoAB)

\* the revisions a config may declare for the plugin
GitRevs == {None, Some("main"), Some("dev"), Some("v1"), Some("c1"), Some("nope")}

\* the commit a push puts on top of c ("" when the model has none)
NextCommit(c) ==
    CASE c = "c1" -> "c2"
      [] c = "c2" -> "c4"
      [] OTHER -> ""

\* the remotes that may stand behind the url: the default branch is main, or
\* dev, or master (with or without a main), or trunk with neither of them
GitRemotes ==
    {Remotes[UrlAB],
     [Remotes[UrlAB] EXCEPT !.head = "dev"],
     [Remotes[UrlAB] EXCEPT !.head = "master",
                            !.heads = ("main" :> "c1" @@ "master" :> "c2")],
     [Remotes[UrlAB] EXCEPT !.head = "master",
                            !.heads = ("master" :> "c1" @@ "dev" :> "c2")],
     [Remotes[UrlAB] EXCEPT !.head = "trunk",
                            !.heads = ("trunk" :> "c1" @@ "dev" :> "c2")]}

\* what repos/a__b holds
GitCur == IF GitSlug \in DOMAIN repos THEN repos[GitSlug] ELSE Absent

GitInit ==
    /\ base = <<(<<"h">>)>>
    /\ cfg = <<>>
    /\ \E rem \in GitRemotes : remote = [Remotes EXCEPT ![UrlAB] = rem]
    /\ plugins = <<>>
    /\ repos = <<>>
    /\ phase = "git"
    /\ run = 0
    /\ jobs = <<>>
    /\ expect = [names |-> {}, slugs |-> {}]
    /\ jst = <<>>
    /\ bars = <<>>
    /\ preClean = [plugins |-> <<>>, repos |-> <<>>, run |-> 0]
    /\ snap = NoSnap
    /\ last = NoCall
    /\ arg = NoArg
    /\ ret = NoRet
    /\ bin = NoBin
    /\ upg = UpStart
    /\ cbars = NoCleanupBars

\* ensure_repo(url, repos/a__b, rev)
GitEnsure ==
    /\ \E rev \in GitRevs :
          \E r \in {EnsureRepoAt(repos, GitSlug, remote[UrlAB], rev)} :
              /\ repos' = r.repos
              /\ last' = [called |-> TRUE, rev |-> rev, ok |-> r.ok, err |-> r.err,
                          before |-> GitCur, rem |-> remote[UrlAB]]
    /\ UNCHANGED <<base, cfg, remote, plugins, phase, run, jobs, expect, jst, bars,
                   preClean, snap, arg, ret, bin, upg, cbars>>

\* somebody pushes to a branch of the remote
GitRemotePush ==
    /\ \E b \in DOMAIN remote[UrlAB].heads :
          /\ NextCommit(remote[UrlAB].heads[b]) # ""
          /\ remote' = [remote EXCEPT ![UrlAB].heads[b] = NextCommit(@)]
    /\ last' = NoCall
    /\ UNCHANGED <<base, cfg, plugins, repos, phase, run, jobs, expect, jst, bars,
                   preClean, snap, arg, ret, bin, upg, cbars>>

\* the remote becomes unreachable, or reachable again
GitNetwork ==
    /\ remote' = [remote EXCEPT ![UrlAB].up = ~@]
    /\ last' = NoCall
    /\ UNCHANGED <<base, cfg, plugins, repos, phase, run, jobs, expect, jst, bars,
                   preClean, snap, arg, ret, bin, upg, cbars>>

\* the user edits a file of the working tree
GitUserModify ==
    /\ GitCur.git
    /\ ~GitCur.dirty
    /\ \E c \in BOOLEAN :
          repos' = [repos EXCEPT ![GitSlug].dirty = TRUE, ![GitSlug].conflicting = c]
    /\ last' = NoCall
    /\ UNCHANGED <<base, cfg, remote, plugins, phase, run, jobs, expect, jst, bars,
                   preClean, snap, arg, ret, bin, upg, cbars>>

\* the user deletes refs/remotes/origin/HEAD (git remote set-head origin -d)
GitDropOriginHead ==
    /\ GitCur.git
    /\ GitCur.originHead # ""
    /\ repos' = [repos EXCEPT ![GitSlug].originHead = ""]
    /\ last' = NoCall
    /\ UNCHANGED <<base, cfg, remote, plugins, phase, run, jobs, expect, jst, bars,
                   preClean, snap, arg, ret, bin, upg, cbars>>

GitNext ==
    \/ GitEnsure
    \/ GitDropOriginHead
    \/ GitRemotePush
    \/ GitNetwork
    \/ GitUserModify

GitSpec == GitInit /\ [][GitNext]_vars

(***************************************************************************)
(* Properties of ensure_repo.                                              *)
(***************************************************************************)
\* the latest call succeeded with rev naming a branch that was local when
\* checkout_rev ran: a branch of the existing checkout, or the one clone made
NamesLocalBranch ==
    /\ last.called
    /\ last.ok
    /\ last.rev.some
    /\ IF last.before.git THEN last.rev.v \in DOMAIN last.before.heads
       ELSE last.rev.v = last.rem.head

\* C10: when rev names an existing local branch, a successful ensure_repo ends
\* with HEAD attached to that branch and the index and working tree holding
\* the tree of the branch's tip, without local changes.
C10_LocalBranchAttached ==
    NamesLocalBranch =>
        /\ GitCur.HEAD = Attached(last.rev.v)
        /\ GitCur.wt = GitCur.heads[last.rev.v]
        /\ ~GitCur.dirty

\* rev named a local branch other than the one HEAD was on, in a working tree
\* with local changes
C10_Witness ==
    /\ NamesLocalBranch
    /\ last.before.git
    /\ last.before.dirty
    /\ last.before.HEAD # Attached(last.rev.v)
    /\ last.before.wt # GitCur.wt

\* the local branches checkout_rev found in the latest call: those of the
\* existing checkout, or the one branch clone created
LocalBefore ==
    IF last.before.git THEN DOMAIN last.before.heads ELSE {last.rem.head}

\* the latest call succeeded with a rev that names a tag and no branch
NamesOnlyTag ==
    /\ last.called
    /\ last.ok
    /\ last.rev.some
    /\ last.rev.v \notin LocalBefore
    /\ last.rev.v \notin DOMAIN GitCur.remotes
    /\ last.rev.v \in DOMAIN GitCur.tags

\* C11: when rev names a tag and neither a local nor a remote-tracking branch,
\* a successful ensure_repo ends with HEAD detached at the commit the tag
\* peels to, and creates no branch.
C11_TagDetached ==
    NamesOnlyTag =>
        /\ GitCur.HEAD = Detached(GitCur.tags[last.rev.v])
        /\ GitCur.wt = GitCur.tags[last.rev.v]
        /\ last.before.git => GitCur.heads = last.before.heads

\* a tag checked out in an existing working copy whose HEAD was attached to a
\* branch at another commit
C11_Witness ==
    /\ NamesOnlyTag
    /\ last.before.git
    /\ last.before.HEAD.attached
    /\ last.before.wt # GitCur.wt

\* C12: checkout_rev applies the first kind that matches, in the order local
\* branch, remote-tracking branch, tag, commit: a rev that names a branch ends
\* attached to it even when a tag has the same name; a local branch is taken as
\* it is, a branch made from a remote-tracking one stands at the remote's tip.
C12_Precedence ==
    last.called /\ last.ok /\ last.rev.some =>
        IF last.rev.v \in LocalBefore
        THEN /\ GitCur.HEAD = Attached(last.rev.v)
             /\ last.before.git => GitCur.heads = last.before.heads
        ELSE IF last.rev.v \in DOMAIN GitCur.remotes
        THEN /\ GitCur.HEAD = Attached(last.rev.v)
             /\ GitCur.heads[last.rev.v] = GitCur.remotes[last.rev.v]
        ELSE IF last.rev.v \in DOMAIN GitCur.tags
        THEN GitCur.HEAD = Detached(GitCur.tags[last.rev.v])
        ELSE GitCur.HEAD = Detached(last.rev.v)

\* a rev that is a branch and also a tag on another commit, checked out as the
\* branch
C12_Witness ==
    /\ last.called
    /\ last.ok
    /\ last.rev.some
    /\ last.rev.v \in DOMAIN GitCur.tags
    /\ last.rev.v \in DOMAIN GitCur.heads
    /\ GitCur.HEAD = Attached(last.rev.v)
    /\ GitCur.wt # GitCur.tags[last.rev.v]

\* the latest call reached checkout_rev (the remote answered) with a rev that
\* names no local branch, no remote-tracking branch, no tag and no commit
NamesNothing ==
    /\ last.called
    /\ last.rev.some
    /\ last.rem.up
    /\ last.rev.v \notin LocalBefore
    /\ last.rev.v \notin DOMAIN GitCur.remotes
    /\ last.rev.v \notin DOMAIN GitCur.tags
    /\ last.rev.v \notin GitCur.objs

\* C13: a rev that names nothing makes ensure_repo fail with "rev not found";
\* HEAD, the local branches and the working tree stay as they were before
\* checkout_rev ran (as the existing checkout had them, or as clone made them).
C13_RevNotFound ==
    NamesNothing =>
        /\ ~last.ok
        /\ last.err = "rev not found"
        /\ IF last.before.git
           THEN /\ GitCur.HEAD = last.before.HEAD
                /\ GitCur.heads = last.before.heads
                /\ GitCur.wt = last.before.wt
                /\ GitCur.dirty = last.before.dirty
           ELSE /\ GitCur.HEAD = Attached(last.rem.head)
                /\ GitCur.heads = (last.rem.head :> last.rem.heads[last.rem.head])

\* an unknown rev asked of an existing working copy whose HEAD is detached and
\* whose tracking refs the fetch has just moved
C13_Witness ==
    /\ NamesNothing
    /\ last.before.git
    /\ ~last.before.HEAD.attached
    /\ GitCur.remotes # last.before.remotes

\* refs/remotes/origin/HEAD as attach_default_branch found it in the latest
\* call: fetch leaves it alone, clone points it at the remote's default branch
OriginHeadBefore ==
    IF last.before.git THEN last.before.originHead ELSE last.rem.head

\* the branch C14 names: origin/HEAD's, or else main, or else master ("" if none)
DefaultBranchClaimed ==
    IF OriginHeadBefore # "" THEN OriginHeadBefore
    ELSE IF "main" \in DOMAIN GitCur.remotes THEN "main"
    ELSE IF "master" \in DOMAIN GitCur.remotes THEN "master"
    ELSE ""

\* the latest call had no rev and got past its fetch
NoRevFetched == last.called /\ ~last.rev.some /\ last.rem.up

\* C14: without a rev, ensure_repo attaches HEAD to the local branch named by
\* origin/HEAD, or when that is absent by origin/main, or else origin/master,
\* with the branch tip and the working tree at the remote-tracking branch's
\* tip; with none of the three it fails and leaves HEAD alone.
C14_DefaultBranch ==
    NoRevFetched =>
        IF DefaultBranchClaimed = ""
        THEN /\ ~last.ok
             /\ last.err = "could not determine default branch"
             /\ GitCur.HEAD = last.before.HEAD
             /\ GitCur.heads = last.before.heads
        ELSE /\ last.ok
             /\ GitCur.HEAD = Attached(DefaultBranchClaimed)
             /\ GitCur.heads[DefaultBranchClaimed] = GitCur.remotes[DefaultBranchClaimed]
             /\ GitCur.wt = GitCur.remotes[DefaultBranchClaimed]
             /\ ~GitCur.dirty

\* origin/HEAD is absent, origin/main and origin/master both exist, and HEAD
\* went from another branch to main
C14_Witness ==
    /\ NoRevFetched
    /\ OriginHeadBefore = ""
    /\ "master" \in DOMAIN GitCur.remotes
    /\ last.before.HEAD # Attached("main")
    /\ GitCur.HEAD = Attached("main")

\* C15: the checkout step of ensure_repo works on freshly fetched refs: when
\* the remote answers, the tracking branches and tags it decides on are the
\* remote's branches and tags of that moment, and a branch taken from a
\* tracking ref (the default branch, or a rev that is no local branch) is
\* checked out at the remote's tip; when the remote does not answer, the call
\* fails before any checkout and the working copy stays as it was.
C15_FetchBeforeCheckout ==
    last.called =>
        IF last.rem.up
        THEN /\ \A b \in DOMAIN last.rem.heads :
                  b \in DOMAIN GitCur.remotes /\ GitCur.remotes[b] = last.rem.heads[b]
             /\ \A t \in DOMAIN last.rem.tags :
                  t \in DOMAIN GitCur.tags /\ GitCur.tags[t] = last.rem.tags[t]
             /\ (last.ok /\ ~last.rev.some /\ DefaultBranchClaimed \in DOMAIN last.rem.heads)
                  => GitCur.wt = last.rem.heads[DefaultBranchClaimed]
             /\ (last.ok /\ last.rev.some /\ last.rev.v \notin LocalBefore
                   /\ last.rev.v \in DOMAIN last.rem.heads)
                  => GitCur.wt = last.rem.heads[last.rev.v]
        ELSE /\ ~last.ok
             /\ GitCur = last.before

\* an existing working copy synchronised after a push: the tracking refs moved
\* and the working tree followed them
C15_Witness ==
    /\ last.called
    /\ last.ok
    /\ last.before.git
    /\ GitCur.remotes # last.before.remotes
    /\ GitCur.wt # last.before.wt
    /\ GitCur.wt \notin Range(last.before.remotes)

\* C16: after a successful ensure_repo every declared sub-repository of the
\* working copy is initialised and updated, those nested inside sub-repositories
\* included.
C16_SubmodulesRecursive ==
    last.called /\ last.ok => GitCur.subs = AllSubmodulesOf(GitCur.wt)

\* C17: whatever the resolution kind and whatever the prior state of the
\* working tree, a successful ensure_repo leaves index and working tree equal
\* to the tree of the commit HEAD ends at, without local changes.
C17_ForcedCheckout ==
    last.called /\ last.ok =>
        /\ GitCur.wt = HeadCommit(GitCur)
        /\ ~GitCur.dirty

\* C18: a job whose ensure_repo and target resolution succeeded ends with its
\* link path a symbolic link to the resolved target, whatever entry (a valid
\* symlink, a dangling symlink, a regular file) stood there before.  (Stated
\* for jobs that share no path with a sibling, and for an entry that is not a
\* directory.)
C18_LinkReplaced ==
    phase = "jobs" /\ C9_DisjointJobPaths =>
        \A i \in DOMAIN jst :
            (/\ jst[i].pc = "done"
             /\ jst[i].src # <<>>
             /\ ~(/\ FileName(jobs[i].link_path) \in DOMAIN plugins
                  /\ plugins[FileName(jobs[i].link_path)].kind = "dir"))
            => /\ jst[i].res = ""
               /\ FileName(jobs[i].link_path) \in DOMAIN plugins
               /\ plugins[FileName(jobs[i].link_path)] = Symlink(jst[i].src)

(***************************************************************************)
(* resolve_source_file on its own: every directory listing over a handful  *)
(* of names, with and without a hint.                                      *)
(***************************************************************************)
ThemeFile == <<"t", ".", "z", "s", "h", "-", "t", "h", "e", "m", "e">>
Readme == <<"R", "E", "A", "D", "M", "E">>
NoDotZsh == <<"x", "z", "s", "h">>
DirZsh == <<"d", ".", "z", "s", "h">>
TwoLineZsh == <<"a", "\n", "b", ".", "z", "s", "h">>

\* the names a repository may hold at its top; d.zsh is a directory
ResolveNames == {BPluginZsh, InitZsh, ThemeFile, Readme, NoDotZsh, DirZsh, TwoLineZsh}
ResolveKind(n) == IF n = DirZsh THEN "dir" ELSE "file"
ResolveEntrySets == {[n \in S |-> ResolveKind(n)] : S \in SUBSET ResolveNames}
ResolveHints == {None, Some(InitZsh), Some(Readme), Some(DirZsh)}

ResolveInit ==
    /\ base = <<(<<"h">>)>>
    /\ cfg = <<>>
    /\ remote = Remotes
    /\ plugins = <<>>
    /\ repos = <<>>
    /\ phase = "resolve"
    /\ run = 0
    /\ jobs = <<>>
    /\ expect = [names |-> {}, slugs |-> {}]
    /\ jst = <<>>
    /\ bars = <<>>
    /\ preClean = [plugins |-> <<>>, repos |-> <<>>, run |-> 0]
    /\ snap = NoSnap
    /\ last = NoCall
    /\ \E e \in ResolveEntrySets, h \in ResolveHints : arg = [entries |-> e, hint |-> h]
    /\ ret = NoRet
    /\ bin = NoBin
    /\ upg = UpStart
    /\ cbars = NoCleanupBars

\* resolve_source_file(repo_dir, hint)
ResolveCall ==
    /\ phase = "resolve"
    /\ ~ret.done
    /\ \E found \in {ResolveSourceFile(arg.entries, arg.hint)} :
          IF found = {}
          THEN ret' = [done |-> TRUE, ok |-> FALSE, v |-> <<>>]
          ELSE \E f \in found : ret' = [done |-> TRUE, ok |-> TRUE, v |-> f]
    /\ UNCHANGED <<base, cfg, remote, plugins, repos, phase, run, jobs, expect, jst, bars,
                   preClean, snap, last, arg, bin, upg, cbars>>

ResolveNext == ResolveCall

ResolveSpec == ResolveInit /\ [][ResolveNext]_vars

\* the hint names a regular file of the listing
ValidHint ==
    /\ arg.hint.some
    /\ arg.hint.v \in DOMAIN arg.entries
    /\ arg.entries[arg.hint.v] = "file"

\* the entries of the listing whose name ends in suffix
Ending(suffix) == {f \in DOMAIN arg.entries : EndsWith(f, suffix)}

\* C19: resolve_source_file returns the hinted file when the hint names an
\* existing file; otherwise an entry matching *.plugin.zsh if there is one,
\* else one matching *.zsh, else one matching *.zsh-theme; it fails exactly
\* when there is no valid hint and no entry matches a pattern.
C19_ResolveOrder ==
    ret.done =>
        IF ValidHint THEN ret.ok /\ ret.v = arg.hint.v
        ELSE IF Ending(SuffixPluginZsh) # {} THEN ret.ok /\ ret.v \in Ending(SuffixPluginZsh)
        ELSE IF Ending(SuffixZsh) # {} THEN ret.ok /\ ret.v \in Ending(SuffixZsh)
        ELSE IF Ending(SuffixZshTheme) # {} THEN ret.ok /\ ret.v \in Ending(SuffixZshTheme)
        ELSE ~ret.ok

(***************************************************************************)
(* build_jobs on its own: every config over a pool of entries, among them  *)
(* a blank repo, a missing required command and a name written with a '/'. *)
(***************************************************************************)
Fzf == "fzf"
NameXY == <<"x", "/", "y">>

BuildPool ==
    {Plugin(RepoAB, None, None, None),
     Plugin(RepoAB, Some(NameXY), None, None),
     Plugin(RepoCD, Some(<<"z">>), None, Some("fpath")),
     Plugin(<<" ">>, Some(<<"w">>), None, None),
     [Plugin(RepoEF, None, None, None) EXCEPT !.requires = {Fzf}],
     [Plugin(RepoCD, None, None, None) EXCEPT !.requires = {"cd"}]}

BuildInit ==
    /\ base = <<(<<"h">>)>>
    /\ cfg = <<>>
    /\ remote = Remotes
    /\ plugins = <<>>
    /\ repos = <<>>
    /\ phase = "build"
    /\ run = 0
    /\ jobs = <<>>
    /\ expect = [names |-> {}, slugs |-> {}]
    /\ jst = <<>>
    /\ bars = <<>>
    /\ preClean = [plugins |-> <<>>, repos |-> <<>>, run |-> 0]
    /\ snap = NoSnap
    /\ last = NoCall
    /\ \E c \in SeqsUpTo(BuildPool, MaxPlugins), o \in {{}, {Fzf}} :
          arg = [cfg |-> c, onPath |-> o]
    /\ ret = NoRet
    /\ bin = NoBin
    /\ upg = UpStart
    /\ cbars = NoCleanupBars

\* build_jobs(&cfg, &p)
BuildCall ==
    /\ phase = "build"
    /\ ~ret.done
    /\ ret' = [done |-> TRUE, v |-> BuildJobs(arg.cfg, P, arg.onPath)]
    /\ UNCHANGED <<base, cfg, remote, plugins, repos, phase, run, jobs, expect, jst, bars,
                   preClean, snap, last, arg, bin, upg, cbars>>

BuildNext == BuildCall

BuildSpec == BuildInit /\ [][BuildNext]_vars

\* C20: the expectation sets of build_jobs are exactly the final components of
\* the jobs' link paths and of the jobs' repository paths (so an entry that
\* produced no job contributes to neither).
C20_ExpectationsMatchJobs ==
    ret.done =>
        /\ ret.v.expect_plugin_names =
              {FileName(ret.v.jobs[i].link_path) : i \in DOMAIN ret.v.jobs}
        /\ ret.v.expect_repo_slugs =
              {FileName(ret.v.jobs[i].repo_dir) : i \in DOMAIN ret.v.jobs}

\* the entries of the config that C21 says produce a job: the repo is not
\* blank and every required executable is on PATH
UsableSpecs ==
    SelectSeq(arg.cfg, LAMBDA pl : /\ ~TrimIsEmpty(pl.repo)
                                   /\ pl.requires \subseteq arg.onPath)

\* C21: build_jobs returns, in config order, exactly one job for each entry
\* whose repo is non-blank and whose required executables are all on PATH,
\* and no job for any other entry.
C21_OneJobPerUsableSpec ==
    ret.done =>
        ret.v.jobs = [k \in 1..Len(UsableSpecs) |-> MakeJob(UsableSpecs[k], P)]

(***************************************************************************)
(* cmd_upgrade (upgrade/mod.rs, upgrade/github.rs, upgrade/archive.rs).    *)
(* A file of the binary directory is its bytes and whether it is           *)
(* executable; a version tag and an asset name are strings, a tag being    *)
(* kept as its characters because its leading 'v's are trimmed.  What a    *)
(* download url serves is either a gzip-compressed tar archive, given by   *)
(* its entries in order, or bytes that are not gzip.                       *)
(***************************************************************************)
\* anyhow::Result of the upgrade steps
Fine(v) == [ok |-> TRUE, err |-> "", v |-> v]
Fail(e) == [ok |-> FALSE, err |-> e]

\* env!("CARGO_PKG_VERSION") of the running binary
CurrentVersion == <<"1">>

\* str::trim_start_matches('v')
RECURSIVE TrimStartMatchesV(_)
TrimStartMatchesV(tag) ==
    IF tag # <<>> /\ Head(tag) = "v" THEN TrimStartMatchesV(Tail(tag)) ELSE tag

\* a comparison that never finds the release to be the running version
NeverUpToDate(rel) == FALSE

\* latest_version == current_version
UpToDate(rel) == TrimStartMatchesV(rel.tag_name) = CurrentVersion

\* target_bin_path: <bin_dir>/rz, and dst.with_extension("new")
TargetBin == "rz"
TmpDst == "rz.new"

File(bytes, exec) == [bytes |-> bytes, exec |-> exec]

\* candidate_asset_names on a linux/x86_64 build
CandidateAssetNames(tag) == << <<"rz-">> \o tag \o <<"-linux-x86_64.tar.gz">> >>

\* cands.iter().find_map(|want| rel.assets.iter().find(|a| a.name == *want)),
\* else rel.assets.first().context("no assets in latest release")
ChooseAsset(rel) ==
    LET cands == CandidateAssetNames(rel.tag_name)
        hit(k) == {i \in DOMAIN rel.assets : rel.assets[i].name = cands[k]}
        wants == {k \in DOMAIN cands : hit(k) # {}}
    IN IF wants # {}
       THEN LET k == CHOOSE k \in wants : \A j \in wants : k <= j
                i == CHOOSE i \in hit(k) : \A j \in hit(k) : i <= j
            IN Fine(rel.assets[i])
       ELSE IF rel.assets # <<>> THEN Fine(rel.assets[1])
       ELSE Fail("no assets in latest release")

Archive(entries) == [gz |-> TRUE, entries |-> entries]
Raw(bytes) == [gz |-> FALSE, bytes |-> bytes]
Entry(path, bytes) == [path |-> path, bytes |-> bytes]

\* extract_if_archive: the file is always read as a gzip-compressed tar; the
\* first entry whose file name is "rz" is copied out
ExtractIfArchive(body) ==
    IF ~body.gz THEN Fail("invalid gzip header")
    ELSE LET named == {i \in DOMAIN body.entries : FileName(body.entries[i].path) = "rz"}
         IN IF named = {} THEN Fail("archive does not contain rz binary")
            ELSE Fine(body.entries[CHOOSE i \in named : \A j \in named : i <= j].bytes)

\* sha256_file: the digest of a file's bytes
Sha256File(f) == <<"sha256", f.bytes>>

\* ReplaceOutcome
Replaced == "Replaced"
Unchanged == "Unchanged"

\* the places an I/O call of atomic_replace can fail at
IoFailures == {"none", "copy", "chmod", "rename"}

\* a replacement that copies the candidate straight onto the live binary
AtomicReplaceInPlace(src, b, io) ==
    LET b2 == (TargetBin :> File(src, FALSE)) @@ Without(b, TargetBin)
        b3 == (TargetBin :> File(src, TRUE)) @@ Without(b, TargetBin)
    IN IF io = "copy" THEN [res |-> Fail("copy failed"), bin |-> b]
       ELSE IF io = "chmod" THEN [res |-> Fail("chmod failed"), bin |-> b2]
       ELSE IF TargetBin \in DOMAIN b /\ b[TargetBin].bytes = src
            THEN [res |-> Fine(Unchanged), bin |-> b]
       ELSE [res |-> Fine(Replaced), bin |-> b3]

\* atomic_replace without the comparison of the digests
AtomicReplaceAlways(src, b, io) ==
    LET b1 == IF TmpDst \in DOMAIN b THEN Without(b, TmpDst) ELSE b
        b3 == (TmpDst :> File(src, TRUE)) @@ b1
    IN IF io = "copy" THEN [res |-> Fail("copy failed"), bin |-> b1]
       ELSE IF io = "chmod" THEN [res |-> Fail("chmod failed"), bin |-> b3]
       ELSE IF io = "rename" THEN [res |-> Fail("rename failed"), bin |-> b3]
       ELSE [res |-> Fine(Replaced),
             bin |-> (TargetBin :> b3[TmpDst]) @@ Without(Without(b3, TmpDst), TargetBin)]

\* atomic_replace(src, dst) on the binary directory b; io names the call that
\* fails, if one does.  The result carries the directory it leaves behind.
AtomicReplace(src, b, io) ==
    LET b1 == IF TmpDst \in DOMAIN b THEN Without(b, TmpDst) ELSE b
        b2 == (TmpDst :> File(src, FALSE)) @@ b1
        b3 == (TmpDst :> File(src, TRUE)) @@ b1
    IN IF io = "copy" THEN [res |-> Fail("copy failed"), bin |-> b1]
       ELSE IF io = "chmod" THEN [res |-> Fail("chmod failed"), bin |-> b2]
       ELSE IF /\ TargetBin \in DOMAIN b3
               /\ Sha256File(b3[TargetBin]) = Sha256File(b3[TmpDst])
            THEN [res |-> Fine(Unchanged), bin |-> Without(b3, TmpDst)]
       ELSE IF io = "rename" THEN [res |-> Fail("rename failed"), bin |-> b3]
       ELSE [res |-> Fine(Replaced),
             bin |-> (TargetBin :> b3[TmpDst]) @@ Without(Without(b3, TmpDst), TargetBin)]

(***************************************************************************)
(* The releases the GitHub API may answer with and what the download urls  *)
(* serve.                                                                  *)
(***************************************************************************)
Asset(name, url) == [name |-> name, browser_download_url |-> url]
Release(tag, assets) == [tag_name |-> tag, assets |-> assets]

TagV2 == <<"v", "2">>
ReleaseTags == {<<"1">>, <<"v", "1">>, TagV2}

LinuxAsset == Asset(<<"rz-">> \o TagV2 \o <<"-linux-x86_64.tar.gz">>, "u/linux")
MacosAsset == Asset(<<"rz-">> \o TagV2 \o <<"-macos-aarch64.tar.gz">>, "u/macos")
SourceAsset == Asset(<<"source.tar.gz">>, "u/source")
BareAsset == Asset(<<"rz">>, "u/bare")
AssetPool == {LinuxAsset, MacosAsset, SourceAsset, BareAsset}

Releases == {Release(t, a) : t \in ReleaseTags, a \in SeqsUpTo(AssetPool, MaxAssets)}

\* the bodies a url may serve
Served(url) ==
    CASE url = "u/linux" ->
            {Archive(<<Entry(<<"README">>, "doc"), Entry(<<"rz">>, "new")>>),
             Archive(<<Entry(<<"dist", "rz">>, "old")>>)}
      [] url = "u/macos" -> {Archive(<<Entry(<<"rz">>, "mac")>>)}
      [] url = "u/source" -> {Archive(<<Entry(<<"README">>, "doc")>>)}
      [] url = "u/bare" -> {Raw("new")}

\* the binary directory before an upgrade: empty, the installed binary, or
\* the installed binary and the temporary an interrupted upgrade left
BinDirs ==
    {NoBin,
     TargetBin :> File("old", TRUE),
     (TargetBin :> File("old", TRUE)) @@ (TmpDst :> File("junk", FALSE))}

UpgradeInit ==
    /\ base = <<(<<"h">>)>>
    /\ cfg = <<>>
    /\ remote = Remotes
    /\ plugins = <<>>
    /\ repos = <<>>
    /\ phase = "upgrade"
    /\ run = 0
    /\ jobs = <<>>
    /\ expect = [names |-> {}, slugs |-> {}]
    /\ jst = <<>>
    /\ bars = <<>>
    /\ preClean = [plugins |-> <<>>, repos |-> <<>>, run |-> 0]
    /\ snap = NoSnap
    /\ last = NoCall
    /\ arg = NoArg
    /\ ret = NoRet
    /\ bin \in BinDirs
    /\ upg = UpStart
    /\ cbars = NoCleanupBars

\* the variables cmd_upgrade does not touch
syncVars ==
    <<base, cfg, remote, plugins, repos, phase, run, jobs, expect, jst, bars,
      preClean, snap, last, arg, ret, cbars>>

\* a step of cmd_upgrade returns its error with `?`
UpFailed(step, e) == [upg EXCEPT !.pc = "failed", !.err = e, !.steps = Append(@, step)]

\* fetch_latest_release and the comparison of its tag with the running version
UpFetch ==
    /\ phase = "upgrade"
    /\ upg.pc = "start"
    /\ \E r \in {Fail("request failed")} \cup {Fine(rel) : rel \in Releases} :
          upg' = IF ~r.ok THEN UpFailed("fetch", r.err)
                 ELSE IF UpToDate(r.v)
                 THEN [upg EXCEPT !.pc = "done", !.rel = Some(r.v),
                                  !.outcome = "already up to date",
                                  !.steps = Append(@, "fetch")]
                 ELSE [upg EXCEPT !.pc = "choose", !.rel = Some(r.v),
                                  !.steps = Append(@, "fetch")]
    /\ UNCHANGED <<syncVars, bin>>

\* the asset for this platform, else the first asset of the release
UpChoose ==
    /\ phase = "upgrade"
    /\ upg.pc = "choose"
    /\ \E r \in {ChooseAsset(upg.rel.v)} :
          upg' = IF ~r.ok THEN UpFailed("choose", r.err)
                 ELSE [upg EXCEPT !.pc = "download", !.asset = Some(r.v),
                                  !.steps = Append(@, "choose")]
    /\ UNCHANGED <<syncVars, bin>>

\* download_to_temp(&client, &asset.browser_download_url)
UpDownload ==
    /\ phase = "upgrade"
    /\ upg.pc = "download"
    /\ \E r \in {Fail("failed to download")}
                   \cup {Fine(b) : b \in Served(upg.asset.v.browser_download_url)} :
          upg' = IF ~r.ok THEN UpFailed("download", r.err)
                 ELSE [upg EXCEPT !.pc = "extract", !.downloaded = Some(r.v),
                                  !.steps = Append(@, "download")]
    /\ UNCHANGED <<syncVars, bin>>

\* extract_if_archive(downloaded.path())
UpExtract ==
    /\ phase = "upgrade"
    /\ upg.pc = "extract"
    /\ \E r \in {ExtractIfArchive(upg.downloaded.v)} :
          upg' = IF ~r.ok THEN UpFailed("extract", r.err)
                 ELSE [upg EXCEPT !.pc = "replace", !.extracted = Some(r.v),
                                  !.steps = Append(@, "extract")]
    /\ UNCHANGED <<syncVars, bin>>

\* atomic_replace(extracted.path(), &target_bin) and the final message
UpReplace ==
    /\ phase = "upgrade"
    /\ upg.pc = "replace"
    /\ \E io \in IoFailures :
          \E r \in {AtomicReplace(upg.extracted.v, bin, io)} :
             /\ bin' = r.bin
             /\ upg' = IF ~r.res.ok THEN UpFailed("replace", r.res.err)
                       ELSE [upg EXCEPT !.pc = "done", !.outcome = r.res.v,
                                        !.steps = Append(@, "replace")]
    /\ UNCHANGED syncVars

UpgradeNext == UpFetch \/ UpChoose \/ UpDownload \/ UpExtract \/ UpReplace

UpgradeSpec == UpgradeInit /\ [][UpgradeNext]_vars

(***************************************************************************)
(* Claims about cmd_upgrade                                                *)
(***************************************************************************)
\* atomic_replace has just returned Ok
ReplaceReturnedOk == upg.pc = "replace" /\ upg'.pc = "done"

\* the digests of the live binary and of the candidate are equal
SameDigest ==
    /\ TargetBin \in DOMAIN bin
    /\ Sha256File(bin[TargetBin]) = Sha256File(File(upg.extracted.v, TRUE))

TagIsRunningVersion(u) == u.rel.some /\ u.rel.v.tag_name = CurrentVersion

\* C23: when the tag of the latest release equals the running version,
\* cmd_upgrade ends right after the fetch with "already up to date": no asset
\* is chosen, nothing is downloaded or extracted, and the binary directory is
\* left as it was.
C23_SameVersionNoDownload ==
    /\ [](TagIsRunningVersion(upg) =>
             /\ upg.pc = "done"
             /\ upg.outcome = "already up to date"
             /\ upg.steps = <<"fetch">>
             /\ upg.asset = None /\ upg.downloaded = None /\ upg.extracted = None)
    /\ [][TagIsRunningVersion(upg) \/ TagIsRunningVersion(upg') => bin' = bin]_vars

\* the release has the running version as its tag and an asset for this platform
C23_Witness ==
    /\ upg.pc = "done"
    /\ upg.rel = Some(Release(CurrentVersion, <<LinuxAsset>>))
    /\ TargetBin \in DOMAIN bin

\* the extract step has been run on the downloaded asset
ExtractRan == \E k \in DOMAIN upg.steps : upg.steps[k] = "extract"

\* the bytes of the entries of an archive whose file name is the target's
NamedLikeTarget(body) ==
    {body.entries[i].bytes : i \in {j \in DOMAIN body.entries :
                                       FileName(body.entries[j].path) = TargetBin}}

\* C24: once the extract step has run, a downloaded archive with an entry
\* named like the target executable has given that entry as the candidate,
\* and a downloaded asset that is not an archive is itself the candidate.
C24_ArchiveOrBareBinary ==
    ExtractRan =>
        IF upg.downloaded.v.gz
        THEN NamedLikeTarget(upg.downloaded.v) # {} =>
                /\ upg.extracted.some
                /\ upg.extracted.v \in NamedLikeTarget(upg.downloaded.v)
        ELSE upg.extracted = Some(upg.downloaded.v.bytes)

\* the order of the steps of cmd_upgrade
UpgradeOrder == <<"fetch", "choose", "download", "extract", "replace">>

\* the live binary of a binary directory, if there is one
Live(b) == IF TargetBin \in DOMAIN b THEN Some(b[TargetBin]) ELSE None

\* C30: the steps of cmd_upgrade run in the order fetch, choose, download,
\* extract, replace, each at most once; nothing runs after a step has failed;
\* and a step that fails before the final rename, like every step before the
\* replacement, leaves the live binary as it was.
C30_SequentialPipeline ==
    /\ [](/\ Len(upg.steps) <= Len(UpgradeOrder)
          /\ upg.steps = SubSeq(UpgradeOrder, 1, Len(upg.steps))
          /\ upg.pc = "failed" => upg.err # "")
    /\ [][/\ upg.pc # "failed"
          /\ upg'.steps = Append(upg.steps, UpgradeOrder[Len(upg.steps) + 1])
          /\ (upg.pc # "replace" \/ (upg'.pc = "failed" /\ upg'.err # "rename failed"))
                => Live(bin') = Live(bin)]_vars

\* making the copy executable failed: the candidate is in rz.new, the live
\* binary is the old one
C30_Witness ==
    /\ upg.pc = "failed"
    /\ upg.err = "chmod failed"
    /\ upg.steps = UpgradeOrder
    /\ Live(bin) = Some(File("old", TRUE))
    /\ bin[TmpDst].bytes = "new"

(***************************************************************************)
(* Further claims about cmd_sync                                           *)
(***************************************************************************)
\* the identifier cleanup_stale_repos and the plugin scan read off a link:
\* the link's target is canonicalized, falling back to the target as it is
\* written, and the component after the first `repos` component is taken
LinkIdentifier(target) ==
    ExtractSlug(UnwrapOr(Canonicalize(target, base, P, repos), target))

\* job i has just created its link
LinkCreatedBy(i) == jst[i].pc = "symlink" /\ jst'[i].pc = "done" /\ jst'[i].res = ""

\* C25: the identifier extracted from a link that a job has just created is
\* the slug of that job's repository, wherever the root directory lies.
C25_LinkIdentifiesRepo ==
    [][\A i \in DOMAIN jst :
          LinkCreatedBy(i) =>
             LinkIdentifier(plugins'[FileName(jobs[i].link_path)].target)
                = Some(FileName(jobs[i].repo_dir))]_vars

\* the entries the two cleanup passes of this run found stale
StalePluginsAtCleanup == DOMAIN preClean.plugins \ expect.names
StaleReposAtCleanup == DOMAIN preClean.repos \ (expect.slugs \cup InUseAtCleanup)

PinnedBranchAdvanced ==
    /\ last.called
    /\ last.ok
    /\ last.rev.some
    /\ last.before.git
    /\ last.before.HEAD = Attached(last.rev.v)
    /\ last.rev.v \in DOMAIN last.rem.heads
    /\ last.rev.v \in DOMAIN last.before.remotes
    /\ last.rem.heads[last.rev.v] # last.before.remotes[last.rev.v]

\* C27: after a successful ensure_repo on a checkout pinned to a branch that
\* the remote has advanced, HEAD is attached to the branch and its commit is
\* the remote branch's tip as just fetched.
C27_PinnedBranchFollowsRemote ==
    PinnedBranchAdvanced =>
        /\ GitCur.HEAD = Attached(last.rev.v)
        /\ HeadCommit(GitCur) = last.rem.heads[last.rev.v]

\* the latest call succeeded on an existing checkout with a rev that names
\* no local branch but a remote-tracking branch
ResolvedAsRemoteBranch ==
    /\ last.called
    /\ last.ok
    /\ last.rev.some
    /\ last.before.git
    /\ last.rev.v \notin DOMAIN last.before.heads
    /\ last.rev.v \in DOMAIN GitCur.remotes

\* C28: an ensure_repo that resolves rev as a remote-tracking branch leaves
\* every local branch that existed before, the one HEAD was attached to
\* included, at the commit it was at.
C28_OtherBranchesUntouched ==
    ResolvedAsRemoteBranch =>
        \A b \in DOMAIN last.before.heads :
            b \in DOMAIN GitCur.heads /\ GitCur.heads[b] = last.before.heads[b]

(***************************************************************************)
(* The order of the steps of a job                                         *)
(***************************************************************************)
\* the positions of a closure at which it works on its link
LinkPcs == {"exists", "remove", "target", "symlink"}

\* the closure of job i returned the error of its ensure_repo
EnsureFailed(st, i) ==
    st[i].pc = "done" /\ st[i].res \notin {"", "no plugin file matched", "File exists"}

\* C29: a job is at its link step only with its repository synchronized; the
\* step in which its ensure_repo fails ends the job and changes no entry of
\* plugins/; and a step of a job changes plugins/ only at the removal or the
\* creation of its link, which a job whose ensure_repo failed never reaches.
C29_LinkAfterEnsure ==
    /\ [](phase = "jobs" =>
             \A i \in DOMAIN jst :
                 jst[i].pc \in LinkPcs =>
                    /\ FileName(jobs[i].repo_dir) \in DOMAIN repos
                    /\ repos[FileName(jobs[i].repo_dir)].git)
    /\ [][phase = "jobs" /\ phase' = "jobs" =>
             \A i \in DOMAIN jst :
                 /\ (jst[i].pc = "ensure" /\ EnsureFailed(jst', i)) => plugins' = plugins
                 /\ EnsureFailed(jst, i) => jst'[i] = jst[i]
                 /\ (jst'[i] # jst[i] /\ plugins' # plugins)
                       => jst[i].pc \in {"remove", "symlink"}]_vars

\* the ensure_repo of a job failed while an entry was at the job's link path
C29_Witness ==
    /\ phase = "jobs"
    /\ \E i \in DOMAIN jst :
          /\ EnsureFailed(jst, i)
          /\ FileName(jobs[i].link_path) \in DOMAIN plugins
          /\ plugins[FileName(jobs[i].link_path)].kind = "symlink"

====
